---- MODULE Spec2Model ----
(***************************************************************************)
(* Upload reliability layer of the social-media processor:                 *)
(*   - CircuitBreaker and RetryManager        (src/error_recovery.py)      *)
(*   - processing_queue table and the workers (src/system/new_database.py, *)
(*                                             src/system/queue_processor.py)*)
(* Time is counted in tenths of a second.                                  *)
(***************************************************************************)
EXTENDS Integers, Sequences, FiniteSets, TLC

VARIABLES
    cb,           \* the CircuitBreaker object (fields of CircuitBreaker.__init__)
    now,          \* time.time(), in tenths of a second
    cpc,          \* per caller of call/call_async: "idle" or "inflight" (awaiting func)
    admitted_in,  \* per caller: breaker state in which its current/last call was admitted
    res,          \* per caller: how its last call ended
    streak,       \* failures observed by callers since the last observed success
    rm,           \* one RetryManager.retry_async / retry_sync run
    tasks,        \* rows of processing_queue, indexed by id
    wk,           \* per worker: position in Worker.start and the Task object it holds
    clock,        \* CURRENT_TIMESTAMP of the database, in seconds
    pipe,         \* position inside add_video_processing_pipeline and the ids it got
    up,           \* one AIWaveriderProcessor upload and the requests it has posted
    gate,         \* files, ledger, listing cache and remote stores seen by the upload gates
    dl,           \* one RetryConfig and the delays calculate_delay returned for it
    pool,         \* the connection pool of one database manager and its get_connection scopes
    par,          \* the semaphore and the upload tasks of one upload_all call
    leg           \* files, Drive folder and state file of a stand-alone Google Drive uploader

vars == <<cb, now, cpc, admitted_in, res, streak, rm, tasks, wk, clock, pipe, up, gate, dl, pool, par, leg>>

----------------------------------------------------------------------------
(* Bounds of the model *)
NumCallers     == 2    \* concurrent callers of one breaker
TestThreshold  == 3    \* failure_threshold passed to the breaker under test
TestTimeout    == 2    \* timeout passed to the breaker under test
MaxRequests    == 5    \* calls admitted by the breaker under test
MaxTime        == 6    \* last instant of the breaker-under-test clock

(* Program constants *)
SettingsFailureThreshold == 5     \* settings.circuit_breaker_failure_threshold
SettingsTimeout          == 600   \* settings.circuit_breaker_timeout (60 s)

NoTime == -1   \* last_failure_time = None

Callers == 1..NumCallers

----------------------------------------------------------------------------
(* CircuitBreaker *)

\* CircuitBreaker.__init__: "x or settings.y" takes the setting when x is None or 0
NewBreaker(failure_threshold, timeout) ==
    [ failure_threshold |-> IF failure_threshold = 0 THEN SettingsFailureThreshold
                            ELSE failure_threshold,
      timeout           |-> IF timeout = 0 THEN SettingsTimeout ELSE timeout,
      failure_count     |-> 0,
      last_failure_time |-> NoTime,
      state             |-> "CLOSED",
      total_requests    |-> 0,
      total_failures    |-> 0,
      total_successes   |-> 0 ]

\* an admission test that also rejects once total_failures has reached the
\* threshold
RejectsMutTotals(b, t) ==
    \/ b.state = "OPEN" /\ ~ (t - b.last_failure_time > b.timeout)
    \/ b.total_failures >= b.failure_threshold

\* the admission test of call / call_async: TRUE when the call is rejected
Rejects(b, t) ==
    /\ b.state = "OPEN"
    /\ ~ (t - b.last_failure_time > b.timeout)

\* the breaker after an admitted call passed the test and counted the request
Admit(b, t) ==
    [ b EXCEPT !.state = IF b.state = "OPEN" THEN "HALF_OPEN" ELSE @,
               !.total_requests = @ + 1 ]

\* an _on_success that leaves failure_count as it is
OnSuccessMutKeepCount(b) ==
    [ b EXCEPT !.state = "CLOSED",
               !.total_successes = @ + 1 ]

\* CircuitBreaker._on_success
OnSuccess(b) ==
    [ b EXCEPT !.failure_count = 0,
               !.state = "CLOSED",
               !.total_successes = @ + 1 ]

\* CircuitBreaker._on_failure
OnFailureMutStrict(b, t) ==
    LET n == b.failure_count + 1 IN
    [ b EXCEPT !.failure_count = n,
               !.last_failure_time = t,
               !.total_failures = @ + 1,
               !.state = IF n > b.failure_threshold THEN "OPEN" ELSE @ ]
OnFailure(b, t) ==
    LET n == b.failure_count + 1 IN
    [ b EXCEPT !.failure_count = n,
               !.last_failure_time = t,
               !.total_failures = @ + 1,
               !.state = IF n >= b.failure_threshold THEN "OPEN" ELSE @ ]

----------------------------------------------------------------------------
(* Concurrent callers of one breaker: CircuitBreaker.call / call_async.     *)
(* The admission test and "total_requests += 1" run without an await in     *)
(* between; the caller is then suspended in "await func(...)" until the     *)
(* operation returns or raises.                                             *)

\* service_name arguments: the default of retry_async and one named backend
ServiceNames == {"default", "aiwaverider"}

\* a name that is not yet a key of RetryManager.circuit_breakers
NoEntry == [ bid |-> 0, b |-> NewBreaker(0, 0) ]

\* rm.reg is circuit_breakers of the module-level manager, rm.bid identifies the
\* CircuitBreaker object the run uses, rm.made counts the objects constructed,
\* rm.seen[s] is the object used by the latest run under service name s
NoRun == [ pc |-> "off", profile |-> "none", attempt |-> 0, n |-> 0, fails_left |-> 0,
           exc |-> "none", invocations |-> 0, raised |-> "none", delay |-> 0, runs |-> 0,
           via |-> "none", service |-> "none", bid |-> 0, made |-> 0,
           reg |-> [s \in ServiceNames |-> NoEntry],
           seen |-> [s \in ServiceNames |-> 0] ]
InitRM == rm = NoRun
Workers == {"video_downloader", "google_uploader", "aiwaverider_uploader", "sheets_updater"}

NoTask == [ id |-> 0, task_type |-> "none", data |-> {}, retry_count |-> 0, max_retries |-> 0 ]

\* QueueProcessor() with the four default workers added, no row in processing_queue
InitQueue ==
    /\ tasks = << >>
    /\ wk = [ w \in Workers |-> [ pc |-> "idle", task |-> NoTask ] ]
    /\ clock = 0
    /\ pipe = [ pc |-> 0, ids |-> << >>, priority |-> 0 ]

\* AIWaveriderProcessor before any upload; sent is the list of chunk-upload
\* requests posted in the current session
NoUpload ==
    [ pc |-> "off", entry |-> "none", uploads |-> 0, token |-> TRUE, file |-> "present",
      file_size |-> 0, avail |-> 0, upload_id |-> 0, total_chunks |-> 0, chunk_number |-> 0,
      sent |-> << >>, small_posts |-> 0, completes |-> << >>, invocations |-> 0,
      rb |-> NewBreaker(0, 0), outcome |-> "none", result |-> FALSE ]
InitUpload == up = NoUpload

(* The upload gates: files of assets/finished_videos, the ledger tables, the
   stores of the two backends and the listing cache of data/cache *)
FileNames == {"a.mp4", "b.mp4"}   \* the .mp4 files rglob finds
Hashes    == {1, 2}               \* _get_file_hash of a file's content
Folders   == {"videos", "thumbnails"}   \* video_folder_path, thumbnail_folder_path
NoFile    == "none"

NoCache == [present |-> FALSE, files |-> {}, timestamp |-> 0]
NoDecision == [file |-> NoFile, hash |-> 0, outcome |-> "none", search |-> "none"]

NoGate ==
    [ disk      |-> [f \in FileNames |-> 1],     \* hash of the file's content
      t         |-> 0,                           \* time.time(), in units of half the cache period
      ops       |-> 0,                           \* gate steps taken so far
      \* ledger: filename of the video_transcripts row whose video_id is ''
      vt        |-> NoFile,
      \* Google Drive: the files of the folder
      drive     |-> {},
      gpc       |-> "idle",                      \* position in process_videos
      state     |-> << >>,                       \* the state dict, in key order
      gleft     |-> {},                          \* files_to_upload not yet handled
      gdec      |-> NoDecision,                  \* last _upload_video_file
      glast     |-> [f \in FileNames |-> "none"],
      \* AIWaverider Drive: names in the video folder
      remote    |-> {},
      cache     |-> [d \in Folders |-> NoCache], \* data/cache/cache_<folder>.json
      asked     |-> [d \in Folders |-> 0],       \* _get_existing_files calls
      lists     |-> [d \in Folders |-> 0],       \* remote list calls
      last_list |-> [d \in Folders |-> -1],      \* time of the last list call
      last_resp |-> [d \in Folders |-> "none"],  \* answer of the last list call
      ret       |-> [d \in Folders |-> {}],      \* last _get_existing_files result
      apc       |-> "idle",                      \* position in upload_all
      aleft     |-> {},                          \* upload_tasks not yet run
      aok       |-> {},                          \* tasks whose result is True
      adec      |-> NoDecision,                  \* last _upload_video_to_aiwaverider
      alast     |-> [f \in FileNames |-> "none"],
      asent     |-> [f \in FileNames |-> 0] ]    \* hash last uploaded successfully

InitGate == gate = NoGate

\* no delay has been calculated; cfg is RetryConfig()
NoDelay ==
    [ cfg  |-> [ max_retries |-> 3, base_delay |-> 10, max_delay |-> 600, exponential_base |-> 2,
                 jitter |-> TRUE, retryable_exceptions |-> {"Exception"} ],
      calls |-> 0, attempt |-> 0, wait |-> 0 ]

InitNoDelay == dl = NoDelay

(* Connection pools: DatabaseManager ("old", src/system/database.py) and
   NewDatabaseManager ("new", src/system/new_database.py) *)
TestPoolSize == 2   \* settings.database_pool_size of the manager under test
NumScopes    == 3   \* tasks that open get_connection scopes
MaxTemp      == 2   \* connections made after a checkout timed out

Scopes      == 1..NumScopes
Connections == 1..(TestPoolSize + MaxTemp)
Pooled      == 1..TestPoolSize      \* the connections made by initialize
NoConn      == 0

\* the pool after initialize(): pool_size open connections in the queue
NewPool(kind) ==
    [ kind  |-> kind,
      queue |-> [i \in Pooled |-> i],                    \* _connection_pool, in FIFO order
      open  |-> [c \in Connections |-> c \in Pooled],    \* connected and not closed
      made  |-> 0,                                       \* connections made on timeouts
      \* per scope: position in get_connection, the connection it holds and
      \* how its body ended last
      sc    |-> [s \in Scopes |-> [pc |-> "idle", conn |-> NoConn, last |-> "none"]] ]

InitNoPool == pool = NewPool("new")

(* Parallel uploads of upload_all / upload_to_aiwaverider *)
MaxUploadTasks  == 5   \* most upload tasks handed to asyncio.gather
SemaphoreValue  == 3   \* asyncio.Semaphore(3)

\* upload_all before the upload tasks are prepared
NoPar == [ pc |-> "idle", value |-> SemaphoreValue, n |-> 0,
           task |-> [k \in 1..MaxUploadTasks |-> "none"] ]

InitNoPar == par = NoPar

(* Stand-alone uploaders: upload-new-video-to-google.py ("video") and
   upload-thumbnails-to-google.py ("thumbnail") *)
NoEntryOfState == [tracked |-> FALSE, content_hash |-> 0, drive_id |-> "unset"]

\* an uploader with an empty state file and an empty Drive folder
NewUploader(kind) ==
    [ kind   |-> kind,
      disk   |-> [f \in FileNames |-> 1],            \* get_file_hash of each file
      folder |-> [f \in FileNames |-> 0],            \* hash of the Drive file of that name, 0: none
      state  |-> [f \in FileNames |-> NoEntryOfState],
      pc     |-> "idle",                             \* position in check_and_upload
      queue  |-> {},                                 \* files still to pass to upload_file
      runs   |-> 0 ]                                 \* check_and_upload calls so far

InitNoLegacy == leg = NewUploader("video")

InitCB ==
    /\ cb = NewBreaker(TestThreshold, TestTimeout)
    /\ now = 0
    /\ cpc = [c \in Callers |-> "idle"]
    /\ admitted_in = [c \in Callers |-> "none"]
    /\ res = [c \in Callers |-> "none"]
    /\ streak = 0
    /\ InitRM
    /\ InitQueue
    /\ InitUpload
    /\ InitGate
    /\ InitNoDelay
    /\ InitNoPool
    /\ InitNoPar
    /\ InitNoLegacy

\* lines 53-58 / 72-77, rejecting branch: raise Exception("Circuit breaker is OPEN ...")
CallRejected(c) ==
    /\ cpc[c] = "idle"
    /\ Rejects(cb, now)
    /\ res' = [res EXCEPT ![c] = "circuit_open"]
    /\ UNCHANGED <<cb, now, cpc, admitted_in, streak, rm, tasks, wk, clock, pipe, up, gate, dl, pool, par, leg>>

\* lines 53-60 / 72-79, admitting branch, up to the call of func
CallAdmitted(c) ==
    /\ cpc[c] = "idle"
    /\ cb.total_requests < MaxRequests
    /\ ~ Rejects(cb, now)
    /\ cb' = Admit(cb, now)
    /\ cpc' = [cpc EXCEPT ![c] = "inflight"]
    /\ admitted_in' = [admitted_in EXCEPT ![c] = cb'.state]
    /\ res' = [res EXCEPT ![c] = "pending"]
    /\ UNCHANGED <<now, streak, rm, tasks, wk, clock, pipe, up, gate, dl, pool, par, leg>>

\* lines 63-65 / 82-84: func returned
CallSucceeds(c) ==
    /\ cpc[c] = "inflight"
    /\ cb' = OnSuccess(cb)
    /\ cpc' = [cpc EXCEPT ![c] = "idle"]
    /\ res' = [res EXCEPT ![c] = "ok"]
    /\ streak' = 0
    /\ UNCHANGED <<now, admitted_in, rm, tasks, wk, clock, pipe, up, gate, dl, pool, par, leg>>

\* lines 66-68 / 85-87: func raised an instance of expected_exception
CallFails(c) ==
    /\ cpc[c] = "inflight"
    /\ cb' = OnFailure(cb, now)
    /\ cpc' = [cpc EXCEPT ![c] = "idle"]
    /\ res' = [res EXCEPT ![c] = "failed"]
    /\ streak' = streak + 1
    /\ UNCHANGED <<now, admitted_in, rm, tasks, wk, clock, pipe, up, gate, dl, pool, par, leg>>

\* the awaiting caller is cancelled: CancelledError is not an Exception, so
\* neither _on_success nor _on_failure runs
CallCancelled(c) ==
    /\ cpc[c] = "inflight"
    /\ cpc' = [cpc EXCEPT ![c] = "idle"]
    /\ res' = [res EXCEPT ![c] = "cancelled"]
    /\ UNCHANGED <<cb, now, admitted_in, streak, rm, tasks, wk, clock, pipe, up, gate, dl, pool, par, leg>>

\* time.time() advances
Tick ==
    /\ now < MaxTime
    /\ now' = now + 1
    /\ UNCHANGED <<cb, cpc, admitted_in, res, streak, rm, tasks, wk, clock, pipe, up, gate, dl, pool, par, leg>>

NextCB ==
    \/ \E c \in Callers : CallRejected(c)
    \/ \E c \in Callers : CallAdmitted(c)
    \/ \E c \in Callers : CallSucceeds(c)
    \/ \E c \in Callers : CallFails(c)
    \/ \E c \in Callers : CallCancelled(c)
    \/ Tick

SpecCB == InitCB /\ [][NextCB]_vars

----------------------------------------------------------------------------
(* Claims about the breaker *)

Probes == { c \in Callers : cpc[c] = "inflight" /\ admitted_in[c] = "HALF_OPEN" }

\* C1: once failure_threshold (3) consecutive calls have failed the breaker is
\* OPEN, and while it is OPEN and no more than timeout has passed since the last
\* failure, no call is admitted: the operation is not invoked and no request is
\* counted; the caller gets the circuit-open error.
C1_OpensThenFailsFast ==
    [][ /\ (streak' > streak /\ streak' >= cb.failure_threshold) => cb'.state = "OPEN"
        /\ (cb.state = "OPEN" /\ now - cb.last_failure_time <= cb.timeout) =>
              /\ \A c \in Callers : cpc[c] = "idle" => cpc'[c] = "idle"
              /\ cb'.total_requests = cb.total_requests
              /\ \A c \in Callers : res'[c] # res[c] /\ cpc[c] = "idle" => res'[c] = "circuit_open"
      ]_vars

C1_Witness ==
    /\ cb.failure_threshold = TestThreshold
    /\ streak = cb.failure_threshold
    /\ cb.state = "OPEN"
    /\ now - cb.last_failure_time <= cb.timeout
    /\ \E c \in Callers : res[c] = "circuit_open"

\* C2: after the timeout of an OPEN breaker at most one call is in flight as
\* the HALF_OPEN probe; a probe that succeeds leaves the breaker CLOSED and a
\* probe that fails leaves it OPEN with last_failure_time = the time of failure.
C2_SingleProbe ==
    [][ /\ Cardinality(Probes') <= 1
        /\ \A c \in Probes :
              /\ res'[c] = "ok" => cb'.state = "CLOSED"
              /\ res'[c] = "failed" => cb'.state = "OPEN" /\ cb'.last_failure_time = now
      ]_vars

\* C36: in every reachable state of the breaker, CLOSED implies failure_count <
\* failure_threshold, and OPEN or HALF_OPEN implies failure_count >=
\* failure_threshold with last_failure_time set.
C36_StateMatchesCount ==
    /\ cb.state = "CLOSED" => cb.failure_count < cb.failure_threshold
    /\ cb.state \in {"OPEN", "HALF_OPEN"} =>
          /\ cb.failure_count >= cb.failure_threshold
          /\ cb.last_failure_time # NoTime

\* a probe is in flight after two concurrent calls failed on an open breaker
C36_Witness ==
    /\ cb.state = "HALF_OPEN"
    /\ cb.failure_count > cb.failure_threshold
    /\ \E c \in Callers : cpc[c] = "inflight"

\* the fields of a breaker that decide admission and transitions
Core(b) == << b.state, b.failure_count, b.last_failure_time >>

\* the breaker with other values in its cumulative counters
WithTotals(b, r, f, s) ==
    [ b EXCEPT !.total_requests = r, !.total_failures = f, !.total_successes = s ]

\* C33: the cumulative counters never influence the breaker: from every
\* reachable state, a breaker that differs only in total_requests,
\* total_failures and total_successes admits or rejects the next call alike and
\* takes the same state, failure_count and last_failure_time on admission,
\* success and failure.
C33_TotalsDoNotInfluence ==
    \A r \in 0..MaxRequests, f \in 0..MaxRequests, s \in 0..MaxRequests :
        LET other == WithTotals(cb, r, f, s) IN
        /\ Rejects(other, now) = Rejects(cb, now)
        /\ Core(Admit(other, now)) = Core(Admit(cb, now))
        /\ Core(OnSuccess(other)) = Core(OnSuccess(cb))
        /\ Core(OnFailure(other, now)) = Core(OnFailure(cb, now))

\* an open breaker whose counters are past the threshold and which has both
\* rejected and admitted calls
C33_Witness ==
    /\ cb.state = "OPEN"
    /\ cb.total_failures > cb.failure_threshold
    /\ cb.total_successes > 0
    /\ \E c \in Callers : res[c] = "circuit_open"

InFlight == { c \in Callers : cpc[c] = "inflight" }

\* C37: in every reachable state total_requests = total_successes +
\* total_failures + the number of admitted calls still in flight, also after an
\* in-flight call was cancelled; a rejected call changes none of the counters.
C37_CountersBalance ==
    cb.total_requests = cb.total_successes + cb.total_failures + Cardinality(InFlight)

----------------------------------------------------------------------------
(* RetryManager: retry_async / retry_sync over the breaker of one service   *)

MaxRuns  == 2   \* runs made through one RetryManager
MaxFails == 6   \* longest prefix of failing invocations of an operation

Profiles == {"DEFAULT", "GOOGLE_API", "AIWAVERIDER", "FILE_OPERATION"}

\* RetryConfig() and the three module-level configurations; delays in tenths of a second
Config(p) ==
    CASE p = "GOOGLE_API" ->
           [ max_retries |-> 3, base_delay |-> 10, max_delay |-> 300, exponential_base |-> 2,
             jitter |-> TRUE, retryable_exceptions |-> {"Exception"} ]
      [] p = "AIWAVERIDER" ->
           [ max_retries |-> 5, base_delay |-> 20, max_delay |-> 600, exponential_base |-> 2,
             jitter |-> TRUE, retryable_exceptions |-> {"Exception"} ]
      [] p = "FILE_OPERATION" ->
           [ max_retries |-> 3, base_delay |-> 5, max_delay |-> 100, exponential_base |-> 2,
             jitter |-> TRUE, retryable_exceptions |-> {"OSError", "IOError"} ]
      [] OTHER ->
           [ max_retries |-> 3, base_delay |-> 10, max_delay |-> 600, exponential_base |-> 2,
             jitter |-> TRUE, retryable_exceptions |-> {"Exception"} ]

\* exception classes: what the operation raises, and the bare Exception of an OPEN breaker
OpExceptions == {"OSError", "ValueError"}
Bases(cls) ==
    CASE cls = "OSError"    -> {"OSError", "IOError", "Exception"}
      [] cls = "ValueError" -> {"ValueError", "Exception"}
      [] OTHER              -> {"Exception"}

\* RetryManager.is_retryable: isinstance(exception, retryable_exceptions)
IsRetryable(cfg, cls) == Bases(cls) \cap cfg.retryable_exceptions # {}

RECURSIVE Pow(_, _)
Pow(b, k) == IF k = 0 THEN 1 ELSE b * Pow(b, k - 1)

Min(a, b) == IF a <= b THEN a ELSE b

\* a delay that is not capped by max_delay
BaseDelayMutNoCap(cfg, attempt) ==
    cfg.base_delay * Pow(cfg.exponential_base, attempt)

\* RetryManager.calculate_delay without the jitter term
BaseDelay(cfg, attempt) ==
    Min(cfg.base_delay * Pow(cfg.exponential_base, attempt), cfg.max_delay)

\* random.uniform(0, delay * 0.1): the two ends of the interval
JitterSamples(cfg, d) == IF cfg.jitter THEN {0, d \div 10} ELSE {0}

\* the except-branch with the end test one attempt late
AfterExceptionMutLate(r, cls) ==
    LET cfg == Config(r.profile) IN
    IF ~ IsRetryable(cfg, cls) THEN [ r EXCEPT !.pc = "raised", !.raised = cls ]
    ELSE IF r.attempt = cfg.max_retries + 1 THEN [ r EXCEPT !.pc = "raised", !.raised = cls ]
    ELSE [ r EXCEPT !.pc = "sleeping", !.delay = BaseDelay(cfg, r.attempt) ]

\* the except-branch of the retry loop for an exception of class cls
AfterException(r, cls) ==
    LET cfg == Config(r.profile) IN
    IF ~ IsRetryable(cfg, cls) THEN [ r EXCEPT !.pc = "raised", !.raised = cls ]
    ELSE IF r.attempt = cfg.max_retries THEN [ r EXCEPT !.pc = "raised", !.raised = cls ]
    ELSE [ r EXCEPT !.pc = "sleeping", !.delay = BaseDelay(cfg, r.attempt) ]

\* RetryManager(config) and get_circuit_breaker(service_name): CircuitBreaker()
InitRetry ==
    /\ cb = NewBreaker(0, 0)
    /\ now = 0
    /\ cpc = [c \in Callers |-> "idle"]
    /\ admitted_in = [c \in Callers |-> "none"]
    /\ res = [c \in Callers |-> "none"]
    /\ streak = 0
    /\ \E p \in Profiles : rm = [ NoRun EXCEPT !.pc = "idle", !.profile = p ]
    /\ InitQueue
    /\ InitUpload
    /\ InitGate
    /\ InitNoDelay
    /\ InitNoPool
    /\ InitNoPar
    /\ InitNoLegacy

\* circuit_breakers of the module-level manager once the breaker of the run
\* that just ended is kept under its name
KeptRegistry ==
    IF rm.via = "manager" THEN [ rm.reg EXCEPT ![rm.service] = [bid |-> rm.bid, b |-> cb] ]
    ELSE rm.reg

\* TRUE when get_circuit_breaker constructs a CircuitBreaker: always for the
\* RetryManager(config) the decorator's wrapper builds, on first use of the
\* name for a module-level manager
BuildsBreaker(service, via) == via = "decorator" \/ KeptRegistry[service].bid = 0

\* a caller starts retry_async(func, service_name = service) on the module-level
\* manager or through the decorator: func raises exc on its first n invocations
StartRun(n, exc, gap, service, via) ==
    /\ rm.pc \in {"idle", "returned", "raised"}
    /\ rm.runs < MaxRuns
    /\ now' = now + gap
    /\ cb' = IF BuildsBreaker(service, via) THEN NewBreaker(0, 0)
             ELSE KeptRegistry[service].b
    /\ LET bid == IF BuildsBreaker(service, via) THEN rm.made + 1
                   ELSE KeptRegistry[service].bid
       IN rm' = [ rm EXCEPT !.pc = "attempt", !.attempt = 0, !.n = n, !.fails_left = n,
                             !.exc = exc, !.invocations = 0, !.raised = "none",
                             !.delay = 0, !.runs = @ + 1,
                             !.via = via, !.service = service, !.bid = bid,
                             !.made = IF BuildsBreaker(service, via) THEN @ + 1 ELSE @,
                             !.reg = IF via = "manager"
                                     THEN [ KeptRegistry EXCEPT ![service] =
                                              [bid |-> bid, b |-> NewBreaker(0, 0)] ]
                                     ELSE KeptRegistry,
                             !.seen = [ @ EXCEPT ![service] = bid ] ]
    /\ UNCHANGED <<cpc, admitted_in, res, streak, tasks, wk, clock, pipe, up, gate, dl, pool, par, leg>>

\* circuit_breaker.call_async raises the circuit-open Exception
AttemptRejected ==
    /\ rm.pc = "attempt"
    /\ Rejects(cb, now)
    /\ rm' = AfterException(rm, "Exception")
    /\ UNCHANGED <<cb, now, cpc, admitted_in, res, streak, tasks, wk, clock, pipe, up, gate, dl, pool, par, leg>>

\* circuit_breaker.call_async admits the call and invokes func
AttemptAdmitted ==
    /\ rm.pc = "attempt"
    /\ ~ Rejects(cb, now)
    /\ cb' = Admit(cb, now)
    /\ rm' = [ rm EXCEPT !.pc = "inflight", !.invocations = @ + 1 ]
    /\ UNCHANGED <<now, cpc, admitted_in, res, streak, tasks, wk, clock, pipe, up, gate, dl, pool, par, leg>>

\* func returns: _on_success, and retry_async returns the result
OpReturns ==
    /\ rm.pc = "inflight"
    /\ rm.fails_left = 0
    /\ cb' = OnSuccess(cb)
    /\ rm' = [ rm EXCEPT !.pc = "returned" ]
    /\ UNCHANGED <<now, cpc, admitted_in, res, streak, tasks, wk, clock, pipe, up, gate, dl, pool, par, leg>>

\* func raises: _on_failure (expected_exception = Exception), then the except-branch
OpRaises ==
    /\ rm.pc = "inflight"
    /\ rm.fails_left > 0
    /\ cb' = OnFailure(cb, now)
    /\ rm' = AfterException([ rm EXCEPT !.fails_left = @ - 1 ], rm.exc)
    /\ UNCHANGED <<now, cpc, admitted_in, res, streak, tasks, wk, clock, pipe, up, gate, dl, pool, par, leg>>

\* asyncio.sleep(delay) / time.sleep(delay), then the next iteration of the loop
Sleep ==
    /\ rm.pc = "sleeping"
    /\ \E j \in JitterSamples(Config(rm.profile), rm.delay) : now' = now + rm.delay + j
    /\ rm' = [ rm EXCEPT !.pc = "attempt", !.attempt = @ + 1 ]
    /\ UNCHANGED <<cb, cpc, admitted_in, res, streak, tasks, wk, clock, pipe, up, gate, dl, pool, par, leg>>

NextRetry ==
    \/ \E n \in 0..MaxFails, exc \in OpExceptions, gap \in {0, SettingsTimeout + 1} :
          StartRun(n, exc, gap, "default", "manager")
    \/ AttemptRejected
    \/ AttemptAdmitted
    \/ OpReturns
    \/ OpRaises
    \/ Sleep

SpecRetry == InitRetry /\ [][NextRetry]_vars

\* runs under every service name, on the module-level manager and through the
\* decorators, of an operation that never fails or fails MaxFails times
NextRegistry ==
    \/ \E n \in {0, MaxFails}, exc \in OpExceptions,
          service \in ServiceNames, via \in {"manager", "decorator"} :
          StartRun(n, exc, 0, service, via)
    \/ AttemptRejected
    \/ AttemptAdmitted
    \/ OpReturns
    \/ OpRaises
    \/ Sleep

SpecRegistry == InitRetry /\ [][NextRegistry]_vars

\* C3: a run whose operation raises a retryable exception on its first N <=
\* max_retries invocations and then returns ends by returning that value, with
\* the breaker CLOSED and failure_count = 0, for every retry profile (stated for
\* the first run of a manager, whose breaker is freshly created).
C3_FailNThenSucceed ==
    ( /\ rm.pc \in {"returned", "raised"}
      /\ rm.runs = 1
      /\ rm.n <= Config(rm.profile).max_retries
      /\ IsRetryable(Config(rm.profile), rm.exc) )
    => ( rm.pc = "returned" /\ cb.state = "CLOSED" /\ cb.failure_count = 0 )

\* C11: a call rejected by the OPEN breaker does not invoke the operation and
\* does not consume an attempt: the run fails at once with the circuit-open
\* error, it neither sleeps nor moves to another attempt.
C11_RejectedFailsImmediately ==
    [][ ( rm.pc = "attempt" /\ Rejects(cb, now) /\ rm' # rm )
        => ( /\ rm'.pc = "raised"
             /\ rm'.raised = "Exception"
             /\ rm'.invocations = rm.invocations
             /\ rm'.attempt = rm.attempt ) ]_vars

\* C12: an exception outside retryable_exceptions is propagated after that one
\* invocation with no retry, and the breaker's state, failure_count and
\* last_failure_time stay as they were.
C12_NonRetryableLeavesBreaker ==
    [][ ( /\ rm.pc = "inflight"
          /\ rm.fails_left > 0
          /\ ~ IsRetryable(Config(rm.profile), rm.exc)
          /\ rm' # rm )
        => ( /\ rm'.pc = "raised"
             /\ rm'.raised = rm.exc
             /\ rm'.invocations = rm.invocations
             /\ cb'.state = cb.state
             /\ cb'.failure_count = cb.failure_count
             /\ cb'.last_failure_time = cb.last_failure_time ) ]_vars

\* C14: one run invokes the operation at most max_retries + 1 times, and after
\* that many invocations the run has ended or its last invocation is running.
C14_AtMostMaxRetriesPlusOne ==
    rm.pc \in {"attempt", "inflight", "sleeping", "returned", "raised"}
    => ( /\ rm.invocations <= Config(rm.profile).max_retries + 1
         /\ rm.attempt <= Config(rm.profile).max_retries
         /\ rm.invocations <= rm.attempt + 1
         /\ rm.invocations = Config(rm.profile).max_retries + 1
              => rm.pc \in {"inflight", "returned", "raised"} )

\* a run that used all max_retries + 1 invocations and raised
C14_Witness ==
    /\ rm.pc = "raised"
    /\ rm.invocations = Config(rm.profile).max_retries + 1
    /\ rm.raised = rm.exc

\* C30: the error of a rejection by the OPEN breaker is of a kind distinct from
\* the operation's errors: when a run ends by a rejection, a handler for the
\* class it raises catches no exception the operation can raise.
C30_CircuitOpenDistinct ==
    [][ ( rm.pc = "attempt" /\ Rejects(cb, now) /\ rm'.pc = "raised" )
        => \A cls \in OpExceptions : rm'.raised \notin Bases(cls) ]_vars

\* C13: breakers are keyed by service name for the whole process: a run under a
\* name used before gets the CircuitBreaker object of the earlier run (decorated
\* functions included), and runs under different names never share an object.
C13_OneBreakerPerName ==
    [][ rm'.runs = rm.runs + 1
        => ( /\ rm.seen[rm'.service] # 0 => rm'.bid = rm.seen[rm'.service]
             /\ \A s \in ServiceNames \ {rm'.service} : rm.seen[s] # rm'.bid ) ]_vars

----------------------------------------------------------------------------
(* processing_queue and the workers of QueueProcessor                       *)

MaxTasks == 3   \* rows inserted into processing_queue
MaxClock == 1   \* last second of the database clock
MaxBusy  == 2   \* workers that hold a task at the same time

DefaultMaxRetries == 3   \* processing_queue.max_retries DEFAULT 3

TaskTypes == {"download_video", "upload_google_drive", "upload_aiwaverider",
              "update_sheets", "process_thumbnail", "transcribe_audio"}
Priorities == {0, 5}

\* task types given to add_task on its own
AddedTypes == {"update_sheets"}

Busy == { w \in Workers : wk[w].pc # "idle" }

\* Worker.task_types as set by the constructors of the four worker classes
RegisteredTypes(w) ==
    CASE w = "video_downloader"     -> {"download_video"}
      [] w = "google_uploader"      -> {"upload_google_drive"}
      [] w = "aiwaverider_uploader" -> {"upload_aiwaverider"}
      [] w = "sheets_updater"       -> {"update_sheets"}

\* the key of task.data that the worker's _execute_task needs; without it the
\* method raises ValueError, with it the simulated work returns a result
RequiredKey(w) ==
    CASE w = "video_downloader"     -> "url"
      [] w = "google_uploader"      -> "file_path"
      [] w = "aiwaverider_uploader" -> "file_path"
      [] w = "sheets_updater"       -> "sheet_data"

\* payload keys a caller of add_task gives to a task of each type
PayloadOf(ty) ==
    CASE ty = "download_video"      -> {"url"}
      [] ty = "upload_google_drive" -> {"file_path"}
      [] ty = "upload_aiwaverider"  -> {"file_path"}
      [] ty = "update_sheets"       -> {"sheet_data"}
      [] OTHER                      -> {}

\* NewDatabaseManager.add_task: INSERT with the column defaults of the schema
NewRow(ty, data, deps, pr, ts) ==
    [ task_type |-> ty, data |-> data, depends_on |-> deps, status |-> "PENDING",
      priority |-> pr, retry_count |-> 0, max_retries |-> DefaultMaxRetries,
      created_at |-> ts ]

Ids == 1..Len(tasks)
Pending == { i \in Ids : tasks[i].status = "PENDING" }

\* "ORDER BY priority DESC, created_at ASC": row i sorts strictly before row j
SortsBefore(i, j) ==
    \/ tasks[i].priority > tasks[j].priority
    \/ tasks[i].priority = tasks[j].priority /\ tasks[i].created_at < tasks[j].created_at

\* NewDatabaseManager.get_next_task(): the rows "LIMIT 1" may return; rows equal
\* in priority and created_at are in no specified order
NextTaskChoices == { i \in Pending : \A j \in Pending : ~ SortsBefore(j, i) }

\* NewDatabaseManager.update_task_status: retry_count is always written
UpdateTaskStatus(rows, id, status, retry_count) ==
    [ rows EXCEPT ![id].status = status, ![id].retry_count = retry_count ]

\* QueueProcessor.add_task called on its own
AddTask(ty, pr) ==
    /\ Len(tasks) < MaxTasks
    /\ tasks' = Append(tasks, NewRow(ty, PayloadOf(ty), {}, pr, clock))
    /\ UNCHANGED <<cb, now, cpc, admitted_in, res, streak, rm, wk, clock, pipe, up, gate, dl, pool, par, leg>>

\* add_video_processing_pipeline is called; its four inserts follow one by one
PipelineStart(pr) ==
    /\ pipe.pc = 0
    /\ Len(tasks) < MaxTasks
    /\ pipe' = [ pc |-> 1, ids |-> << >>, priority |-> pr ]
    /\ UNCHANGED <<cb, now, cpc, admitted_in, res, streak, rm, tasks, wk, clock, up, gate, dl, pool, par, leg>>

\* the next "await self.add_task(...)" of add_video_processing_pipeline
PipelineAdd ==
    /\ pipe.pc \in 1..4
    /\ Len(tasks) < MaxTasks
    /\ LET ty   == CASE pipe.pc = 1 -> "download_video"
                      [] pipe.pc = 2 -> "upload_google_drive"
                      [] pipe.pc = 3 -> "upload_aiwaverider"
                      [] pipe.pc = 4 -> "update_sheets"
           deps == CASE pipe.pc = 1 -> {}
                      [] pipe.pc = 2 -> {pipe.ids[1]}
                      [] pipe.pc = 3 -> {pipe.ids[1]}
                      [] pipe.pc = 4 -> {pipe.ids[2], pipe.ids[3]}
           data == IF pipe.pc = 1 THEN {"url"} ELSE {"url", "depends_on"}
       IN /\ tasks' = Append(tasks, NewRow(ty, data, deps, pipe.priority, clock))
          /\ pipe' = [ pipe EXCEPT !.pc = IF pipe.pc = 4 THEN 0 ELSE pipe.pc + 1,
                                    !.ids = Append(pipe.ids, Len(tasks) + 1) ]
    /\ UNCHANGED <<cb, now, cpc, admitted_in, res, streak, rm, wk, clock, up, gate, dl, pool, par, leg>>

\* CURRENT_TIMESTAMP reaches the next second
ClockTick ==
    /\ clock < MaxClock
    /\ clock' = clock + 1
    /\ UNCHANGED <<cb, now, cpc, admitted_in, res, streak, rm, tasks, wk, pipe, up, gate, dl, pool, par, leg>>

\* Worker._get_next_task: db_manager.get_next_task() without a task type
GetNextTask(w) ==
    /\ wk[w].pc = "idle"
    /\ Cardinality(Busy) < MaxBusy
    /\ \E i \in NextTaskChoices :
          wk' = [ wk EXCEPT ![w] =
                    [ pc |-> "selected",
                      task |-> [ id |-> i, task_type |-> tasks[i].task_type,
                                 data |-> tasks[i].data,
                                 retry_count |-> tasks[i].retry_count,
                                 max_retries |-> tasks[i].max_retries ] ] ]
    /\ UNCHANGED <<cb, now, cpc, admitted_in, res, streak, rm, tasks, clock, pipe, up, gate, dl, pool, par, leg>>

\* Worker._process_task, line 110: update_task_status(task.id, PROCESSING)
MarkProcessing(w) ==
    /\ wk[w].pc = "selected"
    /\ tasks' = UpdateTaskStatus(tasks, wk[w].task.id, "PROCESSING", 0)
    /\ wk' = [ wk EXCEPT ![w].pc = "executing" ]
    /\ UNCHANGED <<cb, now, cpc, admitted_in, res, streak, rm, clock, pipe, up, gate, dl, pool, par, leg>>

\* Worker._process_task, lines 113-119: _execute_task returned, COMPLETED is stored
TaskSucceeds(w) ==
    /\ wk[w].pc = "executing"
    /\ RequiredKey(w) \in wk[w].task.data
    /\ tasks' = UpdateTaskStatus(tasks, wk[w].task.id, "COMPLETED", 0)
    /\ wk' = [ wk EXCEPT ![w] = [ pc |-> "idle", task |-> NoTask ] ]
    /\ UNCHANGED <<cb, now, cpc, admitted_in, res, streak, rm, clock, pipe, up, gate, dl, pool, par, leg>>

\* the except-branch that stores RETRYING without counting the attempt
TaskFailsMutNoIncrement(w) ==
    /\ wk[w].pc = "executing"
    /\ RequiredKey(w) \notin wk[w].task.data
    /\ LET t == wk[w].task IN
         tasks' = IF t.retry_count < t.max_retries
                  THEN UpdateTaskStatus(tasks, t.id, "RETRYING", t.retry_count)
                  ELSE UpdateTaskStatus(tasks, t.id, "FAILED", t.retry_count)
    /\ wk' = [ wk EXCEPT ![w] = [ pc |-> "idle", task |-> NoTask ] ]
    /\ UNCHANGED <<cb, now, cpc, admitted_in, res, streak, rm, clock, pipe, up, gate, dl, pool, par, leg>>

\* Worker._process_task, lines 121-134: _execute_task raised
TaskFails(w) ==
    /\ wk[w].pc = "executing"
    /\ RequiredKey(w) \notin wk[w].task.data
    /\ LET t == wk[w].task IN
         tasks' = IF t.retry_count < t.max_retries
                  THEN UpdateTaskStatus(tasks, t.id, "RETRYING", t.retry_count + 1)
                  ELSE UpdateTaskStatus(tasks, t.id, "FAILED", t.retry_count)
    /\ wk' = [ wk EXCEPT ![w] = [ pc |-> "idle", task |-> NoTask ] ]
    /\ UNCHANGED <<cb, now, cpc, admitted_in, res, streak, rm, clock, pipe, up, gate, dl, pool, par, leg>>

InitQ ==
    /\ cb = NewBreaker(0, 0)
    /\ now = 0
    /\ cpc = [c \in Callers |-> "idle"]
    /\ admitted_in = [c \in Callers |-> "none"]
    /\ res = [c \in Callers |-> "none"]
    /\ streak = 0
    /\ InitRM
    /\ InitQueue
    /\ InitUpload
    /\ InitGate
    /\ InitNoDelay
    /\ InitNoPool
    /\ InitNoPar
    /\ InitNoLegacy

NextQ ==
    \/ \E ty \in AddedTypes, pr \in Priorities : AddTask(ty, pr)
    \/ \E pr \in Priorities : PipelineStart(pr)
    \/ PipelineAdd
    \/ ClockTick
    \/ \E w \in Workers : GetNextTask(w)
    \/ \E w \in Workers : MarkProcessing(w)
    \/ \E w \in Workers : TaskSucceeds(w)
    \/ \E w \in Workers : TaskFails(w)

SpecQ == InitQ /\ [][NextQ]_vars

\* each worker's coroutine is scheduled again and again by the event loop
FairSpecQ ==
    /\ SpecQ
    /\ \A w \in Workers :
          /\ WF_vars(GetNextTask(w))
          /\ WF_vars(MarkProcessing(w))
          /\ WF_vars(TaskSucceeds(w))
          /\ WF_vars(TaskFails(w))

\* the except-branch of Worker._process_task for the Task object t
ExceptBranch(rows, t) ==
    IF t.retry_count < t.max_retries
    THEN UpdateTaskStatus(rows, t.id, "RETRYING", t.retry_count + 1)
    ELSE UpdateTaskStatus(rows, t.id, "FAILED", t.retry_count)

\* update_task_status(task.id, PROCESSING) raises (it has no try block): the
\* except-branch runs and its own update_task_status succeeds (handled) or
\* raises too, in which case Worker.start catches the exception and sleeps
PersistProcessingRaises(w, handled) ==
    /\ wk[w].pc = "selected"
    /\ tasks' = IF handled THEN ExceptBranch(tasks, wk[w].task) ELSE tasks
    /\ wk' = [ wk EXCEPT ![w] = [ pc |-> "idle", task |-> NoTask ] ]
    /\ UNCHANGED <<cb, now, cpc, admitted_in, res, streak, rm, clock, pipe, up, gate, dl, pool, par, leg>>

\* _execute_task returned and update_task_status(task.id, COMPLETED) raises
PersistCompletedRaises(w, handled) ==
    /\ wk[w].pc = "executing"
    /\ RequiredKey(w) \in wk[w].task.data
    /\ tasks' = IF handled THEN ExceptBranch(tasks, wk[w].task) ELSE tasks
    /\ wk' = [ wk EXCEPT ![w] = [ pc |-> "idle", task |-> NoTask ] ]
    /\ UNCHANGED <<cb, now, cpc, admitted_in, res, streak, rm, clock, pipe, up, gate, dl, pool, par, leg>>

\* _execute_task raised and the update_task_status of the except-branch raises
PersistRetryingRaises(w) ==
    /\ wk[w].pc = "executing"
    /\ RequiredKey(w) \notin wk[w].task.data
    /\ wk' = [ wk EXCEPT ![w] = [ pc |-> "idle", task |-> NoTask ] ]
    /\ UNCHANGED <<cb, now, cpc, admitted_in, res, streak, rm, tasks, clock, pipe, up, gate, dl, pool, par, leg>>

\* the workers on a database whose writes can raise
NextQFaults ==
    \/ \E ty \in AddedTypes, pr \in Priorities : AddTask(ty, pr)
    \/ \E w \in Workers : GetNextTask(w)
    \/ \E w \in Workers : MarkProcessing(w)
    \/ \E w \in Workers : TaskSucceeds(w)
    \/ \E w \in Workers : TaskFails(w)
    \/ \E w \in Workers, handled \in BOOLEAN : PersistProcessingRaises(w, handled)
    \/ \E w \in Workers, handled \in BOOLEAN : PersistCompletedRaises(w, handled)
    \/ \E w \in Workers : PersistRetryingRaises(w)

SpecQFaults == InitQ /\ [][NextQFaults]_vars

----------------------------------------------------------------------------
(* Claims about the queue *)

Holders(i) == { w \in Workers : wk[w].pc # "idle" /\ wk[w].task.id = i }

\* C4: no task is held (selected, being marked PROCESSING, or executed) by two
\* workers at the same time.
C4_NoDoubleSelection == \A i \in Ids : Cardinality(Holders(i)) <= 1

\* C5: a task with dependencies becomes PROCESSING only when every task it
\* depends on is COMPLETED.
C5_DependenciesCompleted ==
    [][ \A i \in Ids :
          (tasks[i].status # "PROCESSING" /\ tasks'[i].status = "PROCESSING")
          => \A d \in tasks[i].depends_on : tasks[d].status = "COMPLETED" ]_vars

\* no row of processing_queue is ever FAILED: a task is selected only while
\* PENDING with retry_count 0, and 0 < max_retries = 3
QueueNeverFailed == \A i \in Ids : tasks[i].status # "FAILED"

\* C7: every change of a stored status follows PENDING->PROCESSING,
\* PROCESSING->COMPLETED, PROCESSING->RETRYING, PROCESSING->FAILED or
\* RETRYING->PENDING; COMPLETED and FAILED are never overwritten.
StatusEdges == { <<"PENDING", "PROCESSING">>, <<"PROCESSING", "COMPLETED">>,
                 <<"PROCESSING", "RETRYING">>, <<"PROCESSING", "FAILED">>,
                 <<"RETRYING", "PENDING">> }
C7_StatusEdges ==
    [][ \A i \in Ids :
          tasks'[i].status # tasks[i].status
          => <<tasks[i].status, tasks'[i].status>> \in StatusEdges ]_vars

\* C8: a task in RETRYING with retry_count < max_retries eventually is PENDING
\* again, and a task is FAILED only with retry_count >= max_retries.
RetryingBelowMax(i) ==
    /\ i \in Ids
    /\ tasks[i].status = "RETRYING"
    /\ tasks[i].retry_count < tasks[i].max_retries
IsPending(i) == i \in Ids /\ tasks[i].status = "PENDING"
FailedOnlyAtMax ==
    \A i \in Ids : tasks[i].status = "FAILED" => tasks[i].retry_count >= tasks[i].max_retries
C8_RetryingReturnsToPending ==
    /\ \A i \in 1..MaxTasks : RetryingBelowMax(i) ~> IsPending(i)
    /\ []FailedOnlyAtMax

\* C9: selections follow priority descending, then insertion order: the task a
\* worker selects has not already been selected by another worker, and among the
\* PENDING tasks nobody has selected it has the highest priority and, at equal
\* priority, the lowest id (T1(0), T2(5), T3(5) are selected as T2, T3, T1).
C9_PriorityThenFifo ==
    [][ \A w \in Workers :
          (wk[w].pc = "idle" /\ wk'[w].pc = "selected")
          => LET i == wk'[w].task.id IN
             /\ Holders(i) = {}
             /\ \A j \in Pending \ {i} :
                   Holders(j) = {} =>
                     \/ tasks[i].priority > tasks[j].priority
                     \/ tasks[i].priority = tasks[j].priority /\ i < j ]_vars

\* C10: a worker executes only tasks of a type it is registered for.
C10_RegisteredTypeOnly ==
    \A w \in Workers :
       wk[w].pc = "executing" => wk[w].task.task_type \in RegisteredTypes(w)

\* worker w leaves _process_task after _execute_task raised
ExecutionRaised(w) ==
    /\ wk[w].pc = "executing"
    /\ wk'[w].pc = "idle"
    /\ RequiredKey(w) \notin wk[w].task.data

\* C27: when the execution of a task raises, retry_count is incremented and
\* RETRYING stored if retry_count < max_retries, otherwise FAILED is stored; and
\* retry_count never exceeds max_retries, in the table and in the Task objects.
C27_RetryingOrFailed ==
    [][ /\ \A w \in Workers :
             ExecutionRaised(w) =>
               LET t == wk[w].task IN
               IF t.retry_count < t.max_retries
               THEN /\ tasks'[t.id].status = "RETRYING"
                    /\ tasks'[t.id].retry_count = t.retry_count + 1
               ELSE /\ tasks'[t.id].status = "FAILED"
                    /\ tasks'[t.id].retry_count = t.retry_count
        /\ \A i \in 1..Len(tasks') : tasks'[i].retry_count <= tasks'[i].max_retries
        /\ \A w \in Workers : wk'[w].task.retry_count <= wk'[w].task.max_retries ]_vars

\* a task whose execution raised once: RETRYING with retry_count 1
C27_Witness ==
    \E i \in Ids : tasks[i].status = "RETRYING" /\ tasks[i].retry_count = 1

\* C39: the persisted retry_count of a task never decreases: storing PROCESSING
\* or COMPLETED leaves it unchanged and only a failed execution of the task
\* increases it, by exactly one.
C39_RetryCountMonotone ==
    [][ \A i \in Ids :
          /\ tasks'[i].retry_count >= tasks[i].retry_count
          /\ tasks'[i].retry_count > tasks[i].retry_count =>
                /\ tasks'[i].retry_count = tasks[i].retry_count + 1
                /\ \E w \in DOMAIN wk : ExecutionRaised(w) /\ wk[w].task.id = i ]_vars

\* C29: an exception raised while a task is executed or its status persisted
\* does not end the loop of Worker.start: whenever a worker leaves _process_task
\* it is back at selecting tasks and the task it held is stored as COMPLETED or,
\* after a failure, as RETRYING or FAILED.
C29_FailureBecomesStatus ==
    [][ \A w \in Workers :
           ( wk[w].pc # "idle" /\ wk'[w].pc = "idle" )
           => tasks'[wk[w].task.id].status \in {"COMPLETED", "RETRYING", "FAILED"} ]_vars

\* C28: a task whose execution fails with a permanent error (its payload lacks
\* the key the worker needs) is stored as FAILED at once, without RETRYING and
\* without a retry being counted.
C28_PermanentErrorFailsDirectly ==
    [][ \A w \in Workers :
           ExecutionRaised(w) =>
             /\ tasks'[wk[w].task.id].status = "FAILED"
             /\ tasks'[wk[w].task.id].retry_count = wk[w].task.retry_count ]_vars

----------------------------------------------------------------------------
(* AIWaveriderProcessor: upload of one file to AIWaverider Drive            *)

MaxUploads == 6   \* uploads made through one AIWaveriderProcessor

ProcessorThreshold == 5     \* CircuitBreaker(failure_threshold=5, ...)
ProcessorTimeout   == 600   \* CircuitBreaker(..., timeout=60), in tenths of a second

ChunkSize  == 5 * 1024 * 1024    \* chunk_size, in bytes
SmallLimit == 10 * 1024 * 1024   \* file_size_mb < 10, in bytes

\* os.path.getsize(file_path) of the files uploaded
FileSizes == { 1, ChunkSize, ChunkSize + 1, SmallLimit - 1, SmallLimit, 10 * ChunkSize }

\* bytes file.read can still deliver when _upload_file_chunks opens the file:
\* all of them, or fewer when the file was rewritten after getsize
ReadableSizes(s) == {s, s \div 2, 0}

\* the file at file_path: there, absent, or removed between exists() and getsize()
FileStates == {"present", "missing", "vanishing"}

\* what _session.post does: HTTP 200, another status, or a raised exception
PostOutcomes == {"200", "503", "timeout"}

\* (file_size + chunk_size - 1) // chunk_size
TotalChunks(file_size, chunk_size) == (file_size + chunk_size - 1) \div chunk_size

\* the function returns: to the processor's breaker when it was called through
\* _upload_to_aiwaverider_drive_async, to the caller otherwise
Return(u, result, outcome) ==
    [ u EXCEPT !.result = result, !.outcome = outcome,
               !.pc = IF u.entry = "drive" THEN "returning" ELSE "done" ]

\* the chunk loop that goes on to the next chunk whatever the status was
AfterChunkMutContinue(u, o) ==
    [ u EXCEPT !.chunk_number = @ + 1 ]

\* the end of one iteration of the chunk loop, the post having ended as o
AfterChunk(u, o) ==
    IF o = "200" THEN [ u EXCEPT !.chunk_number = @ + 1 ]
    ELSE Return(u, FALSE, IF o = "timeout" THEN "request_exception" ELSE "http_error")

InitUp ==
    /\ cb = NewBreaker(ProcessorThreshold, ProcessorTimeout)
    /\ now = 0
    /\ cpc = [c \in Callers |-> "idle"]
    /\ admitted_in = [c \in Callers |-> "none"]
    /\ res = [c \in Callers |-> "none"]
    /\ streak = 0
    /\ InitRM
    /\ InitQueue
    /\ up = [ NoUpload EXCEPT !.pc = "idle" ]
    /\ InitGate
    /\ InitNoDelay
    /\ InitNoPool
    /\ InitNoPar
    /\ InitNoLegacy

\* _upload_to_aiwaverider_drive_async is called ("drive"): the decorator builds a
\* RetryManager whose new breaker admits attempt 0; or _upload_large_file_chunked
\* is called by itself ("direct")
UploadStart(entry, size, tok, file, gap) ==
    /\ up.pc \in {"idle", "done"}
    /\ up.uploads < MaxUploads
    /\ entry = "direct" \/ file # "present" => tok
    /\ now' = now + gap
    /\ up' = [ NoUpload EXCEPT !.pc = IF entry = "drive" THEN "called" ELSE "chunked",
                                !.entry = entry, !.uploads = up.uploads + 1,
                                !.token = tok, !.file = file, !.file_size = size,
                                !.invocations = IF entry = "drive" THEN 1 ELSE 0,
                                !.rb = IF entry = "drive" THEN Admit(NewBreaker(0, 0), now')
                                       ELSE NewBreaker(0, 0) ]
    /\ UNCHANGED <<cb, cpc, admitted_in, res, streak, rm, tasks, wk, clock, pipe, gate, dl, pool, par, leg>>

\* self.circuit_breaker.call_async raises the circuit-open Exception; the except
\* clause returns False, which the retry layer takes as the result
ProcessorRejects ==
    /\ up.pc = "called"
    /\ Rejects(cb, now)
    /\ up' = [ up EXCEPT !.pc = "done", !.result = FALSE, !.outcome = "rejected",
                          !.rb = OnSuccess(@) ]
    /\ UNCHANGED <<cb, now, cpc, admitted_in, res, streak, rm, tasks, wk, clock, pipe, gate, dl, pool, par, leg>>

\* self.circuit_breaker.call_async admits the call and awaits _perform_upload
ProcessorAdmits ==
    /\ up.pc = "called"
    /\ ~ Rejects(cb, now)
    /\ cb' = Admit(cb, now)
    /\ up' = [ up EXCEPT !.pc = "perform" ]
    /\ UNCHANGED <<now, cpc, admitted_in, res, streak, rm, tasks, wk, clock, pipe, gate, dl, pool, par, leg>>

\* the size test that also sends a file of exactly the threshold in one request
UsesSmallUploadMutInclusive(file_size) == file_size <= SmallLimit

\* file_size_mb < 10, with file_size_mb = file_size / (1024 * 1024)
UsesSmallUpload(file_size) == file_size < SmallLimit

\* _perform_upload up to the choice of the upload method
PerformUpload ==
    /\ up.pc = "perform"
    /\ up.file # "vanishing" \/ ~ up.token
    /\ up' = IF ~ up.token THEN Return(up, FALSE, "no_token")
             ELSE IF up.file = "missing" THEN Return(up, FALSE, "no_file")
             ELSE IF UsesSmallUpload(up.file_size) THEN [ up EXCEPT !.pc = "small" ]
             ELSE [ up EXCEPT !.pc = "chunked" ]
    /\ UNCHANGED <<cb, now, cpc, admitted_in, res, streak, rm, tasks, wk, clock, pipe, gate, dl, pool, par, leg>>

\* os.path.getsize raises in _perform_upload: the exception is re-raised, the
\* processor's breaker counts a failure, the except clause returns False
PerformRaises ==
    /\ up.pc = "perform"
    /\ up.token
    /\ up.file = "vanishing"
    /\ cb' = OnFailure(cb, now)
    /\ up' = [ up EXCEPT !.pc = "done", !.result = FALSE, !.outcome = "os_error",
                          !.rb = OnSuccess(@) ]
    /\ UNCHANGED <<now, cpc, admitted_in, res, streak, rm, tasks, wk, clock, pipe, gate, dl, pool, par, leg>>

\* _upload_small_file: one post to upload_url
SmallPost(o) ==
    /\ up.pc = "small"
    /\ up' = Return([ up EXCEPT !.small_posts = @ + 1 ], o = "200",
                    IF o = "200" THEN "ok"
                    ELSE IF o = "timeout" THEN "request_exception" ELSE "http_error")
    /\ UNCHANGED <<cb, now, cpc, admitted_in, res, streak, rm, tasks, wk, clock, pipe, gate, dl, pool, par, leg>>

\* _upload_large_file_chunked up to the call of _upload_file_chunks and the open
\* of the file there
ChunkedBegin ==
    /\ up.pc = "chunked"
    /\ \E avail \in ReadableSizes(up.file_size) :
          up' = IF up.file # "present" THEN Return(up, FALSE, "os_error")
                ELSE [ up EXCEPT !.pc = "chunks", !.upload_id = up.uploads,
                                  !.total_chunks = TotalChunks(up.file_size, ChunkSize),
                                  !.avail = avail, !.chunk_number = 1 ]
    /\ UNCHANGED <<cb, now, cpc, admitted_in, res, streak, rm, tasks, wk, clock, pipe, gate, dl, pool, par, leg>>

\* one iteration of the loop of _upload_file_chunks whose read returned data
ChunkPost(o) ==
    /\ up.pc = "chunks"
    /\ up.chunk_number <= up.total_chunks
    /\ (up.chunk_number - 1) * ChunkSize < up.avail
    /\ up' = AfterChunk([ up EXCEPT !.sent = Append(@,
                             [ upload_id |-> up.upload_id,
                               chunk_number |-> up.chunk_number,
                               total_chunks |-> up.total_chunks,
                               status |-> o ]) ], o)
    /\ UNCHANGED <<cb, now, cpc, admitted_in, res, streak, rm, tasks, wk, clock, pipe, gate, dl, pool, par, leg>>

\* the loop ends, by the end of the range or by the break on an empty read, and
\* _upload_file_chunks returns True
ChunksEnd ==
    /\ up.pc = "chunks"
    /\ \/ up.chunk_number > up.total_chunks
       \/ (up.chunk_number - 1) * ChunkSize >= up.avail
    /\ up' = [ up EXCEPT !.pc = "complete" ]
    /\ UNCHANGED <<cb, now, cpc, admitted_in, res, streak, rm, tasks, wk, clock, pipe, gate, dl, pool, par, leg>>

\* _complete_chunked_upload: one post to the upload-complete endpoint
CompletePost(o) ==
    /\ up.pc = "complete"
    /\ up' = Return([ up EXCEPT !.completes = Append(@, o) ], o = "200",
                    IF o = "200" THEN "ok"
                    ELSE IF o = "timeout" THEN "request_exception" ELSE "http_error")
    /\ UNCHANGED <<cb, now, cpc, admitted_in, res, streak, rm, tasks, wk, clock, pipe, gate, dl, pool, par, leg>>

\* _perform_upload returns a bool: _on_success of the processor's breaker, then
\* of the retry layer's breaker, and retry_async returns the bool
PerformReturns ==
    /\ up.pc = "returning"
    /\ cb' = OnSuccess(cb)
    /\ up' = [ up EXCEPT !.pc = "done", !.rb = OnSuccess(@) ]
    /\ UNCHANGED <<now, cpc, admitted_in, res, streak, rm, tasks, wk, clock, pipe, gate, dl, pool, par, leg>>

NextUp ==
    \/ \E entry \in {"drive", "direct"}, size \in FileSizes, tok \in BOOLEAN,
          file \in FileStates, gap \in {0, ProcessorTimeout + 1} :
          UploadStart(entry, size, tok, file, gap)
    \/ ProcessorRejects
    \/ ProcessorAdmits
    \/ PerformUpload
    \/ PerformRaises
    \/ \E o \in PostOutcomes : SmallPost(o)
    \/ ChunkedBegin
    \/ \E o \in PostOutcomes : ChunkPost(o)
    \/ ChunksEnd
    \/ \E o \in PostOutcomes : CompletePost(o)
    \/ PerformReturns

SpecUpload == InitUp /\ [][NextUp]_vars

\* the upload has returned to the code that called it
Finished == up.pc \in {"returning", "done"}

\* the chunked path was taken and a session was opened
InSession == up.pc \in {"chunks", "complete", "returning", "done"} /\ up.total_chunks > 0

AllSent200 == \A i \in 1..Len(up.sent) : up.sent[i].status = "200"

\* C15: a transient failure of a post (exception or non-200 status) reaches the
\* retry layer as a failure: no breaker counts the attempt as a success, the
\* processor's breaker counts a failure, and the upload is given up only after
\* max_retries + 1 invocations.
C15_TransientFailureCounted ==
    [][ ( up'.entry = "drive" /\ up'.outcome \in {"http_error", "request_exception"} )
        => ( /\ cb'.total_successes = cb.total_successes
             /\ up'.rb.total_successes = up.rb.total_successes
             /\ up'.pc = "done" => ( /\ cb'.total_failures > cb.total_failures
                                     /\ up'.invocations
                                          = Config("AIWAVERIDER").max_retries + 1 ) ) ]_vars

\* C16: the completion call is issued at most once and only after chunk calls
\* 1..total_chunks all succeeded; when a chunk failed or fewer than total_chunks
\* were sent there is no completion call and the upload fails; the upload
\* succeeds only if the completion call did.
C16_CompletionAfterAllChunks ==
    InSession =>
      /\ Len(up.completes) <= 1
      /\ Len(up.completes) = 1 =>
            /\ Len(up.sent) = up.total_chunks
            /\ AllSent200
            /\ \A i \in 1..Len(up.sent) : up.sent[i].chunk_number = i
      /\ ( Finished /\ (~ AllSent200 \/ Len(up.sent) < up.total_chunks) ) =>
            ( up.completes = << >> /\ ~ up.result )
      /\ ( Finished /\ up.result ) => up.completes = << "200" >>

\* C17: total_chunks is the ceiling of file_size / chunk_size (1, 1, 2, 10 for
\* sizes 1, c, c + 1, 10 c), and when every chunk send succeeded the number of
\* chunk calls made is total_chunks.
C17_TotalChunksIsCeiling ==
    /\ \A s \in 1..12, c \in 1..4 :
          TotalChunks(s, c) * c >= s /\ (TotalChunks(s, c) - 1) * c < s
    /\ InSession =>
          /\ up.total_chunks * ChunkSize >= up.file_size
          /\ (up.total_chunks - 1) * ChunkSize < up.file_size
          /\ up.file_size = 1 => up.total_chunks = 1
          /\ up.file_size = ChunkSize => up.total_chunks = 1
          /\ up.file_size = ChunkSize + 1 => up.total_chunks = 2
          /\ up.file_size = 10 * ChunkSize => up.total_chunks = 10
          /\ Len(up.sent) <= up.total_chunks
          /\ ( up.pc \in {"complete", "returning", "done"} /\ AllSent200 )
             => Len(up.sent) = up.total_chunks

\* C18: the chunk calls of a session carry chunk_number 1, 2, ... in order,
\* without gap or repeat, the same upload_id and the same total_chunks, and a
\* chunk is sent only after all earlier ones succeeded.
C18_ChunksInOrder ==
    \A i \in 1..Len(up.sent) :
        /\ up.sent[i].chunk_number = i
        /\ up.sent[i].upload_id = up.upload_id
        /\ up.sent[i].total_chunks = up.total_chunks
        /\ i < Len(up.sent) => up.sent[i].status = "200"

\* a session that posted three chunks or more, the last of them failing
C18_Witness ==
    /\ Finished
    /\ Len(up.sent) >= 3
    /\ up.sent[Len(up.sent)].status # "200"
    /\ ~ up.result

\* C19: a chunk send is retried through the RetryManager: the session gives a
\* chunk up only after it was sent max_retries + 1 times.
C19_ChunkSendRetried ==
    ( Finished /\ up.entry = "drive" /\ up.sent # << >>
      /\ up.sent[Len(up.sent)].status # "200" )
    => Cardinality({ i \in 1..Len(up.sent) :
                       up.sent[i].chunk_number = up.sent[Len(up.sent)].chunk_number })
         = Config("AIWAVERIDER").max_retries + 1

\* C20: a failed completion call is retried through the RetryManager: the upload
\* is reported failed only after max_retries + 1 completion calls.
C20_CompletionRetried ==
    ( Finished /\ up.entry = "drive" /\ up.completes # << >>
      /\ up.completes[Len(up.completes)] # "200" )
    => Len(up.completes) = Config("AIWAVERIDER").max_retries + 1

\* the upload passed the token and file checks and one of the two upload
\* methods was chosen
Dispatched ==
    /\ up.entry = "drive"
    /\ \/ up.pc \in {"small", "chunked", "chunks", "complete"}
       \/ Finished /\ up.outcome \in {"ok", "http_error", "request_exception"}

\* C21: a file below the 10 MB threshold is sent with exactly one single-request
\* upload and no chunk or completion call; a file at or above the threshold goes
\* the chunked path (chunk calls, then the completion call) and makes no
\* single-request upload.
C21_ThresholdDispatch ==
    Dispatched =>
      /\ up.file_size < SmallLimit =>
            /\ up.small_posts = IF up.pc = "small" THEN 0 ELSE 1
            /\ up.sent = << >>
            /\ up.completes = << >>
            /\ up.total_chunks = 0
      /\ up.file_size >= SmallLimit =>
            /\ up.small_posts = 0
            /\ up.pc # "small"
            /\ up.pc # "chunked" => up.total_chunks > 0
            /\ up.completes # << >> => Finished
            /\ ( Finished /\ up.result ) => up.completes = << "200" >>

\* a file of exactly 10 MB uploaded in two chunks and one completion call
C21_Witness ==
    /\ Dispatched
    /\ up.pc = "done"
    /\ up.file_size = SmallLimit
    /\ up.result
    /\ Len(up.sent) = 2
    /\ up.completes = << "200" >>
    /\ up.small_posts = 0

----------------------------------------------------------------------------
(* The upload gates of UploadProcessor (Google Drive) and AIWaveriderProcessor.
   The upload a gate lets through is the one of the previous section; here only
   its result counts.  No code path gives upload_tracking a row for a video
   (upsert_upload_tracking names 19 columns for 18 placeholders, the update_*
   methods are UPDATE statements), and video_transcripts has no column for
   upload_status, drive_id, file_hash or aiwaverider_status. *)
CacheTTL    == 2   \* settings.cache_duration_hours * 3600, in units of half the period
MaxGateTime == 4   \* last instant of the gate clock
MaxGateOps  == 5   \* steps of process_videos / upload_all in one run

UploadTrackingRows == {}   \* filenames having a row in upload_tracking

SearchOutcomes == {"ok", "error"}     \* service.files().list(...).execute()
ListResponses  == {"200", "error"}    \* GET /api/files/list

\* _load_video_state: one entry per video_transcripts row; the columns the row
\* lacks read as '' (hash 0) and 'PENDING'
LoadVideoState(g) ==
    IF g.vt = NoFile THEN << >>
    ELSE << [name |-> g.vt, hash |-> 0, status |-> "PENDING"] >>

\* state[normalized_path] = {...}: an existing key keeps its place
SetState(state, e) ==
    IF \E i \in 1..Len(state) : state[i].name = e.name
    THEN [i \in 1..Len(state) |-> IF state[i].name = e.name THEN e ELSE state[i]]
    ELSE Append(state, e)

\* _check_database_duplicate: a row with this filename in either table
DatabaseDuplicate(g, f) == g.vt = f \/ f \in UploadTrackingRows

\* _check_duplicate_by_name: None when the search raises
NameDuplicate(g, f, search) ==
    search = "ok" /\ \E x \in g.drive : x.name = f

\* _check_duplicate_by_content: a file whose description holds hash:<h>;
\* None when the search raises
ContentDuplicate(g, h, search) ==
    search = "ok" /\ \E x \in g.drive : x.described /\ x.hash = h

\* steps 1 to 5 of _upload_video_file
GoogleGate(g, f, nameS, contS) ==
    IF DatabaseDuplicate(g, f) THEN "skip_db"
    ELSE IF NameDuplicate(g, f, nameS) THEN "skip_name"
    ELSE IF ContentDuplicate(g, g.disk[f], contS) THEN "skip_content"
    ELSE IF \E i \in 1..Len(g.state) :
                /\ g.state[i].name = f
                /\ g.state[i].hash = g.disk[f]
                /\ g.state[i].status = "COMPLETED"
         THEN "skip_state"
    ELSE "upload"

\* which of the two Drive searches of _upload_video_file raised, if it ran
GoogleSearch(g, f, nameS, contS) ==
    IF DatabaseDuplicate(g, f) THEN "none"
    ELSE IF nameS = "error" THEN "failed"
    ELSE IF NameDuplicate(g, f, nameS) THEN "ok"
    ELSE IF contS = "error" THEN "failed"
    ELSE "ok"

\* the cache test of _get_existing_files that always lists
CacheFreshMutNever(e, time) ==
    e.present /\ time - e.timestamp < 0

\* if os.path.exists(cache_file) ... if cache_age < cache_duration_hours * 3600
CacheFresh(e, time) ==
    e.present /\ time - e.timestamp < CacheTTL

\* _get_fresh_file_list: the names of the folder, set() on a non-200 response
\* or an exception
FreshFileList(g, d, resp) ==
    IF resp = "200" /\ d = "videos" THEN g.remote ELSE {}

\* _get_existing_files(folder_path), the list call answering resp
GetExistingFiles(g, d, resp) ==
    IF CacheFresh(g.cache[d], g.t)
    THEN [ g EXCEPT !.asked[d] = @ + 1, !.ret[d] = g.cache[d].files ]
    ELSE [ g EXCEPT !.asked[d] = @ + 1,
                    !.lists[d] = @ + 1,
                    !.last_list[d] = g.t,
                    !.last_resp[d] = resp,
                    !.cache[d] = [present |-> TRUE,
                                  files |-> FreshFileList(g, d, resp),
                                  timestamp |-> g.t],
                    !.ret[d] = FreshFileList(g, d, resp) ]

OthersUnchangedByGate ==
    UNCHANGED <<cb, now, cpc, admitted_in, res, streak, rm, tasks, wk, clock, pipe, up, dl, pool, par, leg>>

\* process_videos up to the upload loop: the state is loaded and every .mp4
\* found is queued (no row of get_all_videos has upload_status or drive_id)
ProcessVideosStart ==
    /\ gate.gpc = "idle"
    /\ gate.ops < MaxGateOps
    /\ gate' = [ gate EXCEPT !.gpc = "files",
                             !.ops = @ + 1,
                             !.state = LoadVideoState(gate),
                             !.gleft = { f \in FileNames : gate.disk[f] # 0 } ]
    /\ OthersUnchangedByGate

\* one iteration of the upload loop: _upload_video_file(service, file_path,
\* state); created tells whether files().create returned an id.  After a
\* success update_video_status(video_data['id'], ...) raises KeyError, which
\* the loop counts as a failure.
UploadVideoFile(f, nameS, contS, created) ==
    /\ gate.gpc = "files"
    /\ f \in gate.gleft
    /\ gate.ops < MaxGateOps
    /\ LET h    == gate.disk[f]
           step == GoogleGate(gate, f, nameS, contS)
           out  == IF step # "upload" THEN step
                   ELSE IF created THEN "uploaded" ELSE "upload_failed"
           g1   == [ gate EXCEPT !.gleft = @ \ {f},
                                 !.ops = @ + 1,
                                 !.gdec = [file |-> f, hash |-> h, outcome |-> out,
                                           search |-> GoogleSearch(gate, f, nameS, contS)] ]
       IN  gate' =
             IF out = "uploaded"
             THEN [ g1 EXCEPT !.drive = @ \cup {[name |-> f, hash |-> h, described |-> FALSE]},
                              !.state = SetState(@, [name |-> f, hash |-> h,
                                                     status |-> "COMPLETED"]),
                              !.vt = f,
                              !.glast[f] = "completed" ]
             ELSE IF out = "upload_failed"
             THEN [ g1 EXCEPT !.glast[f] = "failed" ]
             ELSE g1
    /\ OthersUnchangedByGate

\* the end of process_videos: _save_video_state upserts every entry of the
\* state with video_id '', each replacing the row of the one before
ProcessVideosEnd ==
    /\ gate.gpc = "files"
    /\ gate.gleft = {}
    /\ gate' = [ gate EXCEPT !.gpc = "idle",
                             !.vt = IF gate.state = << >> THEN @
                                    ELSE gate.state[Len(gate.state)].name,
                             !.state = << >> ]
    /\ OthersUnchangedByGate

\* upload_all up to asyncio.gather: both listings are read and the videos that
\* are not in the listing become upload tasks (the ledger never holds an
\* aiwaverider_status); there are no thumbnails
UploadAllStart(respV, respT) ==
    /\ gate.apc = "idle"
    /\ gate.ops < MaxGateOps
    /\ LET g1 == GetExistingFiles(gate, "videos", respV)
           g2 == GetExistingFiles(g1, "thumbnails", respT)
           upload_tasks == { f \in FileNames : f \notin g2.ret["videos"] /\ gate.disk[f] # 0 }
       IN  gate' = [ g2 EXCEPT !.ops = @ + 1,
                               !.apc = IF upload_tasks = {} THEN "idle" ELSE "tasks",
                               !.aleft = upload_tasks,
                               !.aok = {} ]
    /\ OthersUnchangedByGate

\* one upload task: _upload_video_to_aiwaverider(file_path); posted tells
\* whether _upload_to_aiwaverider_drive_async returned True
UploadVideoToAiwaverider(f, resp, posted) ==
    /\ gate.apc = "tasks"
    /\ f \in gate.aleft
    /\ gate.ops < MaxGateOps
    /\ LET g1     == GetExistingFiles(gate, "videos", resp)
           listed == g1.lists["videos"] # gate.lists["videos"]
           exists == f \in g1.ret["videos"]
           out    == IF exists THEN "skip"
                     ELSE IF posted THEN "uploaded" ELSE "upload_failed"
           g2     == [ g1 EXCEPT !.aleft = @ \ {f},
                                 !.ops = @ + 1,
                                 !.aok = IF out = "upload_failed" THEN @ ELSE @ \cup {f},
                                 !.adec = [file |-> f, hash |-> gate.disk[f], outcome |-> out,
                                           search |-> IF ~ listed THEN "cached"
                                                      ELSE IF resp = "200" THEN "ok"
                                                      ELSE "failed"] ]
       IN  gate' =
             IF out = "uploaded"
             THEN [ g2 EXCEPT !.remote = @ \cup {f},
                              !.asent[f] = gate.disk[f],
                              !.alast[f] = "completed" ]
             ELSE IF out = "upload_failed"
             THEN [ g2 EXCEPT !.alast[f] = "failed" ]
             ELSE g2
    /\ OthersUnchangedByGate

\* the results loop of upload_all: the first True result of a video raises
\* KeyError at file_data['id'] and upload_all returns False; a False result
\* adds one to failed_count.  The ledger is not written.
UploadAllResults ==
    /\ gate.apc = "tasks"
    /\ gate.aleft = {}
    /\ gate' = [ gate EXCEPT !.apc = "idle", !.aok = {} ]
    /\ OthersUnchangedByGate

\* time passes
GateTick ==
    /\ gate.t < MaxGateTime
    /\ gate' = [ gate EXCEPT !.t = @ + 1 ]
    /\ OthersUnchangedByGate

\* a file of the folder is replaced by one of the same name and other content
ReplaceFile(f) ==
    /\ gate' = [ gate EXCEPT !.disk[f] = CHOOSE h \in Hashes : h # gate.disk[f] ]
    /\ OthersUnchangedByGate

\* the Google Drive gate, with the files of the folder changing under it
NextGoogleGate ==
    \/ ProcessVideosStart
    \/ \E f \in FileNames, nameS \in SearchOutcomes, contS \in SearchOutcomes,
          created \in BOOLEAN : UploadVideoFile(f, nameS, contS, created)
    \/ ProcessVideosEnd
    \/ \E f \in FileNames : ReplaceFile(f)

SpecGoogleGate == InitCB /\ [][NextGoogleGate]_vars

\* the AIWaverider gate and its listing cache, with time passing
NextAiwGate ==
    \/ \E respV \in ListResponses, respT \in ListResponses : UploadAllStart(respV, respT)
    \/ \E f \in FileNames, resp \in ListResponses, posted \in BOOLEAN :
          UploadVideoToAiwaverider(f, resp, posted)
    \/ UploadAllResults
    \/ GateTick
    \/ \E f \in FileNames : ReplaceFile(f)

SpecAiwGate == InitCB /\ [][NextAiwGate]_vars

----------------------------------------------------------------------------
(* Claims about the upload gates *)

\* the gate skipped on the strength of the ledger (database row or state entry)
LedgerSkip(d) == d.outcome \in {"skip_db", "skip_state"}

\* C22: the upload gate skips a file on the strength of the ledger only when a
\* file of that name with the hash of the current on-disk file was uploaded and
\* recorded: a same-named file of other content is uploaded, not skipped.
C22_StaleHashForcesUpload ==
    LedgerSkip(gate.gdec) =>
        \E x \in gate.drive : x.name = gate.gdec.file /\ x.hash = gate.gdec.hash

\* an upload was attempted by the decision
Proceeded(d) == d.outcome \in {"uploaded", "upload_failed"}

\* C23: when the remote listing or the remote search of a duplicate check fails,
\* the check does not answer 'not present': no upload proceeds on that decision.
C23_ListingFailurePropagates ==
    /\ gate.gdec.search = "failed" => ~ Proceeded(gate.gdec)
    /\ gate.adec.search = "failed" => ~ Proceeded(gate.adec)

\* C24: once a file has been uploaded successfully in a run, every later gate
\* decision for the same file (same name and content) in the run is a skip,
\* though the cached listing is stale.
C24_NoSecondUpload ==
    [][ \A f \in FileNames :
          ( /\ gate.apc = "tasks"
            /\ f \in gate.aleft
            /\ f \notin gate'.aleft
            /\ gate.asent[f] = gate.disk[f] )
          => gate'.adec.outcome = "skip" ]_vars

C25_WitnessExpired ==
    /\ gate.lists["videos"] = 2
    /\ gate.last_list["videos"] >= CacheTTL

\* the status the ledger holds for the uploads of a file: upload_tracking is
\* the only table with a status of an upload
LedgerStatus(g, f) ==
    IF f \in UploadTrackingRows THEN "PENDING" ELSE "none"

\* C26: after a failed upload attempt of a file the ledger holds an entry for
\* the file with status PENDING or FAILED, until a later attempt succeeds.
C26_FailedStaysInLedger ==
    \A f \in FileNames :
        (gate.glast[f] = "failed" \/ gate.alast[f] = "failed")
            => LedgerStatus(gate, f) \in {"PENDING", "FAILED"}

\* C40: a listing-cache entry is written only with the result of a successful
\* remote list call: a failed list call leaves the cache unchanged.
C40_FailedListNotCached ==
    [][ \A d \in Folders :
          gate'.cache[d] # gate.cache[d] => gate'.last_resp[d] = "200" ]_vars

----------------------------------------------------------------------------
(* RetryManager.calculate_delay, called for attempt = 0, 1, ... as the retry
   loop calls it, for the configurations of the module with either jitter
   setting and base *)
MaxAttempt == 7   \* largest attempt index passed to calculate_delay

DelayConfigs ==
    { [ Config(p) EXCEPT !.jitter = j, !.exponential_base = e ] :
        p \in Profiles, j \in BOOLEAN, e \in {2, 3} }

InitDelay ==
    /\ cb = NewBreaker(TestThreshold, TestTimeout)
    /\ now = 0
    /\ cpc = [c \in Callers |-> "idle"]
    /\ admitted_in = [c \in Callers |-> "none"]
    /\ res = [c \in Callers |-> "none"]
    /\ streak = 0
    /\ InitRM
    /\ InitQueue
    /\ InitUpload
    /\ InitGate
    /\ dl \in { [ NoDelay EXCEPT !.cfg = c ] : c \in DelayConfigs }
    /\ InitNoPool
    /\ InitNoPar
    /\ InitNoLegacy

\* delay = self.calculate_delay(attempt), for the next attempt index
CalculateDelay ==
    /\ dl.calls <= MaxAttempt
    /\ \E j \in JitterSamples(dl.cfg, BaseDelay(dl.cfg, dl.calls)) :
          dl' = [ dl EXCEPT !.attempt = dl.calls,
                            !.wait = BaseDelay(dl.cfg, dl.calls) + j,
                            !.calls = @ + 1 ]
    /\ UNCHANGED <<cb, now, cpc, admitted_in, res, streak, rm, tasks, wk, clock, pipe, up, gate, pool, par, leg>>

NextDelay == CalculateDelay

SpecDelay == InitDelay /\ [][NextDelay]_vars

\* d_k of a configuration
CappedExponential(cfg, k) ==
    IF cfg.base_delay * Pow(cfg.exponential_base, k) <= cfg.max_delay
    THEN cfg.base_delay * Pow(cfg.exponential_base, k)
    ELSE cfg.max_delay

\* C34: the wait calculated for attempt k is d_k = min(base_delay *
\* exponential_base^k, max_delay) without jitter and lies in [d_k, 1.1 * d_k]
\* with jitter; d_k does not decrease with k and no wait exceeds 1.1 * max_delay.
C34_DelayBounds ==
    dl.calls > 0 =>
        LET k == dl.attempt
            d == CappedExponential(dl.cfg, k)
        IN  /\ ~ dl.cfg.jitter => dl.wait = d
            /\ dl.cfg.jitter => d <= dl.wait /\ 10 * dl.wait <= 11 * d
            /\ k > 0 => CappedExponential(dl.cfg, k - 1) <= d
            /\ 10 * dl.wait <= 11 * dl.cfg.max_delay

\* a jittered wait above max_delay, for the AIWaverider configuration
C34_Witness ==
    /\ dl.cfg.jitter
    /\ dl.cfg.base_delay = 20
    /\ dl.cfg.exponential_base = 2
    /\ dl.attempt = 5
    /\ dl.wait = 660

\* a wait without jitter at the cap
C34_WitnessNoJitter ==
    /\ ~ dl.cfg.jitter
    /\ dl.calls > 0
    /\ dl.wait = dl.cfg.max_delay

----------------------------------------------------------------------------
(* get_connection scopes over the connection pool of a database manager *)

OthersUnchangedByPool ==
    UNCHANGED <<cb, now, cpc, admitted_in, res, streak, rm, tasks, wk, clock, pipe, up, gate, dl, par, leg>>

InitPool ==
    /\ cb = NewBreaker(TestThreshold, TestTimeout)
    /\ now = 0
    /\ cpc = [c \in Callers |-> "idle"]
    /\ admitted_in = [c \in Callers |-> "none"]
    /\ res = [c \in Callers |-> "none"]
    /\ streak = 0
    /\ InitRM
    /\ InitQueue
    /\ InitUpload
    /\ InitGate
    /\ InitNoDelay
    /\ pool \in { NewPool("old"), NewPool("new") }
    /\ InitNoPar
    /\ InitNoLegacy

\* await self._connection_pool.put(conn) by scope s: the connection joins the
\* queue, or the scope waits while the queue holds maxsize items
PutBack(p, s) ==
    IF Len(p.queue) < TestPoolSize
    THEN [ p EXCEPT !.queue = Append(@, p.sc[s].conn),
                    !.sc[s].pc = "idle", !.sc[s].conn = NoConn ]
    ELSE [ p EXCEPT !.sc[s].pc = "putting" ]

\* conn = await self._connection_pool.get(); yield conn
Checkout(s) ==
    /\ pool.sc[s].pc = "idle"
    /\ pool.queue # << >>
    /\ pool' = [ pool EXCEPT !.queue = Tail(@),
                             !.sc[s].pc = "body", !.sc[s].conn = Head(pool.queue) ]
    /\ OthersUnchangedByPool

\* DatabaseManager.get_connection: wait_for(get(), 10.0) timed out on an empty
\* pool; a new connection is made and yielded
CheckoutTimesOut(s) ==
    /\ pool.kind = "old"
    /\ pool.sc[s].pc = "idle"
    /\ pool.queue = << >>
    /\ pool.made < MaxTemp
    /\ LET c == TestPoolSize + pool.made + 1 IN
       pool' = [ pool EXCEPT !.made = @ + 1,
                             !.open[c] = TRUE,
                             !.sc[s].pc = "body_temp", !.sc[s].conn = c ]
    /\ OthersUnchangedByPool

\* the body of the scope returned or raised: the finally clauses run.  For a
\* connection made on timeout the inner finally closes it, and the outer
\* finally (conn is set, the manager is not closed) puts it into the pool.
ScopeExits(s, how) ==
    /\ pool.sc[s].pc \in {"body", "body_temp"}
    /\ LET p1 == [ pool EXCEPT !.sc[s].last = how,
                               !.open[pool.sc[s].conn] =
                                   IF pool.sc[s].pc = "body_temp" THEN FALSE ELSE @ ]
       IN  pool' = PutBack(p1, s)
    /\ OthersUnchangedByPool

\* a put that waited goes through once the queue has room
PutUnblocks(s) ==
    /\ pool.sc[s].pc = "putting"
    /\ Len(pool.queue) < TestPoolSize
    /\ pool' = PutBack(pool, s)
    /\ OthersUnchangedByPool

NextPool ==
    \/ \E s \in Scopes : Checkout(s)
    \/ \E s \in Scopes : CheckoutTimesOut(s)
    \/ \E s \in Scopes, how \in {"returned", "raised"} : ScopeExits(s, how)
    \/ \E s \in Scopes : PutUnblocks(s)

SpecPool == InitPool /\ [][NextPool]_vars

InQueue == { pool.queue[i] : i \in 1..Len(pool.queue) }
Holding == { s \in Scopes : pool.sc[s].pc # "idle" }

\* C31: for a manager's pool, whether scope bodies return or raise or a checkout
\* times out: the connections in the pool plus those checked out never exceed
\* pool_size, every checked-out connection is returned exactly once (it is in
\* the pool once or held by one scope), and no closed connection is in the pool.
C31_PoolBounded ==
    /\ Len(pool.queue) + Cardinality(Holding) <= TestPoolSize
    /\ \A c \in Pooled :
          \/ c \in InQueue /\ \A s \in Holding : pool.sc[s].conn # c
          \/ c \notin InQueue /\ Cardinality({ s \in Holding : pool.sc[s].conn = c }) = 1
    /\ \A i, j \in 1..Len(pool.queue) : i # j => pool.queue[i] # pool.queue[j]
    /\ \A c \in InQueue : pool.open[c]

----------------------------------------------------------------------------
(* The upload tasks of one upload_all (or upload_to_aiwaverider) call: every
   task is upload_with_semaphore, run by asyncio.gather *)

OthersUnchangedByPar ==
    UNCHANGED <<cb, now, cpc, admitted_in, res, streak, rm, tasks, wk, clock, pipe, up, gate, dl, pool, leg>>

UploadResults == {"true", "false", "raised"}   \* what the upload coroutine did

\* semaphore = asyncio.Semaphore(3); asyncio.gather(...) over n upload tasks
GatherStart(n) ==
    /\ par.pc = "idle"
    /\ par' = [ pc |-> "gather", value |-> SemaphoreValue, n |-> n,
                task |-> [k \in 1..MaxUploadTasks |-> IF k <= n THEN "waiting" ELSE "none"] ]
    /\ OthersUnchangedByPar

\* an acquire that does not look at the value
AcquireMutUnbounded(k) ==
    /\ par.task[k] = "waiting"
    /\ par' = [ par EXCEPT !.value = @ - 1, !.task[k] = "uploading" ]
    /\ OthersUnchangedByPar

\* async with semaphore: task k enters once the value is positive
Acquire(k) ==
    /\ par.task[k] = "waiting"
    /\ par.value > 0
    /\ par' = [ par EXCEPT !.value = @ - 1, !.task[k] = "uploading" ]
    /\ OthersUnchangedByPar

\* the upload of task k returned True or False or raised: leaving the
\* async with block releases the semaphore
UploadEnds(k, how) ==
    /\ par.task[k] = "uploading"
    /\ par' = [ par EXCEPT !.value = @ + 1, !.task[k] = how ]
    /\ OthersUnchangedByPar

\* gather returned (return_exceptions=True): the results loop
ProcessResults ==
    /\ par.pc = "gather"
    /\ \A k \in 1..par.n : par.task[k] \in UploadResults
    /\ par' = NoPar
    /\ OthersUnchangedByPar

NextPar ==
    \/ \E n \in 1..MaxUploadTasks : GatherStart(n)
    \/ \E k \in 1..MaxUploadTasks : Acquire(k)
    \/ \E k \in 1..MaxUploadTasks, how \in UploadResults : UploadEnds(k, how)
    \/ ProcessResults

SpecPar == InitCB /\ [][NextPar]_vars

InFlightUploads == { k \in 1..MaxUploadTasks : par.task[k] = "uploading" }

\* C32: during upload_all at most 3 uploads are in flight at any time, for any
\* number of upload tasks and whether uploads return True, return False or raise.
C32_AtMostThreeInFlight == Cardinality(InFlightUploads) <= 3

\* three uploads in flight while a task waits, after one upload raised and one
\* returned False
C32_Witness ==
    /\ Cardinality(InFlightUploads) = 3
    /\ \E k \in 1..MaxUploadTasks : par.task[k] = "waiting"
    /\ \E k \in 1..MaxUploadTasks : par.task[k] = "raised"

----------------------------------------------------------------------------
(* check_and_upload of the stand-alone Google Drive uploaders.  call tells how
   the Drive create or update request of an upload_file call ends. *)
MaxLegacyRuns == 3   \* check_and_upload runs of one uploader

DriveCalls == {"ok", "fails"}

OthersUnchangedByLegacy ==
    UNCHANGED <<cb, now, cpc, admitted_in, res, streak, rm, tasks, wk, clock, pipe, up, gate, dl, pool, par>>

InitLegacy ==
    /\ cb = NewBreaker(TestThreshold, TestTimeout)
    /\ now = 0
    /\ cpc = [c \in Callers |-> "idle"]
    /\ admitted_in = [c \in Callers |-> "none"]
    /\ res = [c \in Callers |-> "none"]
    /\ streak = 0
    /\ InitRM
    /\ InitQueue
    /\ InitUpload
    /\ InitGate
    /\ InitNoDelay
    /\ InitNoPool
    /\ InitNoPar
    /\ leg \in { NewUploader("video"), NewUploader("thumbnail") }

\* the state holds the hash of the file as it is now
Unchanged(u, f) == u.state[f].tracked /\ u.state[f].content_hash = u.disk[f]

\* upload-new-video-to-google.py: load_state and scan_folder; a new or changed
\* file gets a fresh state entry and is queued
ScanFolder ==
    /\ leg.kind = "video"
    /\ leg.pc = "idle"
    /\ leg.runs < MaxLegacyRuns
    /\ LET files_to_upload == { f \in FileNames : ~ Unchanged(leg, f) } IN
       leg' = [ leg EXCEPT
                  !.runs = @ + 1,
                  !.state = [f \in FileNames |->
                               IF f \in files_to_upload
                               THEN [tracked |-> TRUE, content_hash |-> 0, drive_id |-> "unset"]
                               ELSE leg.state[f]],
                  !.queue = files_to_upload,
                  !.pc = IF files_to_upload = {} THEN "idle" ELSE "uploading" ]
    /\ OthersUnchangedByLegacy

\* upload-new-video-to-google.py: upload_file inside the try of check_and_upload.
\* update_existing_file returns None when the update request raises; an
\* exception of the create request leaves upload_file before the state is written.
UploadFileVideo(f, call) ==
    /\ leg.kind = "video"
    /\ leg.pc = "uploading"
    /\ f \in leg.queue
    /\ LET h  == leg.disk[f]
           u1 == [ leg EXCEPT !.queue = @ \ {f} ]
       IN  leg' =
             IF Unchanged(leg, f) THEN u1
             ELSE IF leg.folder[f] # 0
             THEN [ u1 EXCEPT !.folder[f] = IF call = "ok" THEN h ELSE @,
                              !.state[f].content_hash = h,
                              !.state[f].drive_id = IF call = "ok" THEN "id" ELSE "None" ]
             ELSE IF call = "ok"
             THEN [ u1 EXCEPT !.folder[f] = h,
                              !.state[f].content_hash = h,
                              !.state[f].drive_id = "id" ]
             ELSE u1
    /\ OthersUnchangedByLegacy

\* upload-thumbnails-to-google.py: load_state and find_image_files
FindImageFiles ==
    /\ leg.kind = "thumbnail"
    /\ leg.pc = "idle"
    /\ leg.runs < MaxLegacyRuns
    /\ leg' = [ leg EXCEPT !.runs = @ + 1, !.queue = FileNames, !.pc = "uploading" ]
    /\ OthersUnchangedByLegacy

\* upload-thumbnails-to-google.py: upload_file; a failed update or create
\* returns None before the state is written
UploadFileThumbnail(f, call) ==
    /\ leg.kind = "thumbnail"
    /\ leg.pc = "uploading"
    /\ f \in leg.queue
    /\ LET h  == leg.disk[f]
           u1 == [ leg EXCEPT !.queue = @ \ {f} ]
       IN  leg' =
             IF Unchanged(leg, f) \/ call = "fails" THEN u1
             ELSE [ u1 EXCEPT !.folder[f] = h,
                              !.state[f] = [tracked |-> TRUE, content_hash |-> h,
                                            drive_id |-> "id"] ]
    /\ OthersUnchangedByLegacy

\* the end of check_and_upload: save_state
SaveState ==
    /\ leg.pc = "uploading"
    /\ leg.queue = {}
    /\ leg' = [ leg EXCEPT !.pc = "idle" ]
    /\ OthersUnchangedByLegacy

\* a watched file gets other content
LegacyFileChanges(f) ==
    /\ leg' = [ leg EXCEPT !.disk[f] = CHOOSE h \in Hashes : h # leg.disk[f] ]
    /\ OthersUnchangedByLegacy

NextLegacy ==
    \/ ScanFolder
    \/ \E f \in FileNames, call \in DriveCalls : UploadFileVideo(f, call)
    \/ FindImageFiles
    \/ \E f \in FileNames, call \in DriveCalls : UploadFileThumbnail(f, call)
    \/ SaveState
    \/ \E f \in FileNames : LegacyFileChanges(f)

SpecLegacy == InitLegacy /\ [][NextLegacy]_vars

\* C35: in the stand-alone uploaders a file's content_hash and drive_id are in
\* the state only after the upload or update of that content succeeded: when
\* the Drive request failed the state holds no hash matching the file, and the
\* next scan queues the file again.
C35_HashOnlyAfterSuccess ==
    \A f \in FileNames :
        leg.state[f].content_hash # 0 =>
            /\ leg.folder[f] = leg.state[f].content_hash
            /\ leg.state[f].drive_id = "id"
====
